---- MODULE Spec2Model ----
(***************************************************************************)
(* Model of the clothing-item repository of dhobighat-backend              *)
(* (src/crud.py, with the request validation of src/app.py and the         *)
(* response model of src/models.py).                                       *)
(*                                                                         *)
(* A stored document is a function from the keys it holds to their values  *)
(* (a Python dict): "k in doc" is  k \in DOMAIN doc.  Text (names, types,  *)
(* search patterns) is a sequence of one-character strings so that the     *)
(* case-insensitive substring match of the store can be computed.          *)
(* Timestamps are seconds since an epoch, intervals are seconds.           *)
(*                                                                         *)
(* Every coroutine of ClothingItemCRUD is cut at its awaits: one action    *)
(* per store round trip, so that callers interleave as the event loop      *)
(* lets them.                                                              *)
(***************************************************************************)
EXTENDS Integers, Sequences, FiniteSets, TLC

VARIABLES
    store,   \* the clothing_items collection, in insertion (natural) order
    now,     \* datetime.utcnow()
    pc,      \* pc[p]: where caller p stands in its coroutine
    call,    \* call[p]: the locals of caller p's coroutine
    created, \* ids of the documents inserted by create_clothing_item
    overlap, \* whether the event loop has requests overlap at their awaits
    calls,   \* coroutines started while requests overlap
    nstage,  \* normalizer harness: 0 = raw drawn, 1 = normalized once, 2 = twice
    nraw,    \* normalizer harness: the raw document
    nres1,   \* normalizer harness: _normalize_document(nraw)
    nres2,   \* normalizer harness: _normalize_document of nres1's document
    request, \* router: the HTTP request being routed, method and path
    routed   \* router: the endpoint the request is dispatched to

vars == <<store, now, pc, call, created, overlap, calls, nstage, nraw, nres1, nres2,
          request, routed>>

-----------------------------------------------------------------------------
(* Bounds of the model. *)

MaxItems == 2       \* documents in the collection
MaxTime == 1        \* the clock stops advancing here
MaxInterval == 2    \* cleaning intervals offered by callers: 1..MaxInterval
NumProcs == 2       \* concurrent callers
MaxLimit == 2       \* page sizes offered by callers: 1..MaxLimit
MaxCalls == 3
MaxSegments == 4       \* coroutines started in a run with overlapping requests

Procs == 1..NumProcs

-----------------------------------------------------------------------------
(* Values. *)

\* 7 * 24 * 60 * 60, the default interval of _normalize_document
DefaultInterval == 604800

\* a value that is no datetime and no int (None, a string): adding it to a
\* timedelta, or handing it to the response model, raises
Malformed == 0 - 1

IsDatetime(v) == v # Malformed
IsInt(v) == v # Malformed

\* the dict with no keys; also stands for "no document" (find_one's None)
NoDoc == [k \in {} |-> 0]

Has(doc, k) == k \in DOMAIN doc

\* doc[k] = v on a dict
Put(doc, k, v) == [x \in (DOMAIN doc) \cup {k} |-> IF x = k THEN v ELSE doc[x]]

\* the keys of doc among ks
Restrict(doc, ks) == [x \in (DOMAIN doc) \cap ks |-> doc[x]]

Min(a, b) == IF a <= b THEN a ELSE b

-----------------------------------------------------------------------------
(* Text and the store's regex match with option "i". *)

Lower(c) ==
    CASE c = "S" -> "s"
      [] c = "H" -> "h"
      [] c = "P" -> "p"
      [] c = "B" -> "b"
      [] OTHER -> c

LowerStr(s) == [i \in 1..Len(s) |-> Lower(s[i])]

IsSubstring(p, s) ==
    \E i \in 0..(Len(s) - Len(p)) : SubSeq(s, i + 1, i + Len(p)) = p

\* {"$regex": pattern, "$options": "i"} with a pattern of plain letters
RegexMatchI(pattern, s) == IsSubstring(LowerStr(pattern), LowerStr(s))

Unknown == <<"u", "n", "k", "n", "o", "w", "n">>

NameInputs == {<<"B", "t">>}
TypeInputs == {<<"s", "h">>, <<"P">>}
PatternInputs == {<<"S">>, <<"p">>, <<"h">>, <<"b">>}
IntervalInputs == 1..MaxInterval
\* 0 is a string that is no ObjectId; an id above Len(store) names no document
IdInputs == 0..MaxItems
SkipInputs == 0..1
LimitInputs == 1..MaxLimit

-----------------------------------------------------------------------------
(* Schedule calculation: last_cleaned + timedelta(seconds=interval). *)

\* the addition raises TypeError unless it adds an int to a datetime
CanAdd(last_cleaned, interval) == IsDatetime(last_cleaned) /\ IsInt(interval)

NextCleaningDate(last_cleaned, interval) == last_cleaned + interval

-----------------------------------------------------------------------------
(* _normalize_document, one operator per block of the function. *)

MutNormalizeType(d) ==
    IF ~Has(d, "clothingItemType")
    THEN IF Has(d, "type")
         THEN Put(d, "clothingItemType", d["type"])
         ELSE IF Has(d, "clothing_item_type")
              THEN Put(d, "clothingItemType", d["clothing_item_type"])
              ELSE Put(d, "clothingItemType", Unknown)
    ELSE d

NormalizeType(d) ==
    IF ~Has(d, "clothingItemType")
    THEN IF Has(d, "clothing_item_type")
         THEN Put(d, "clothingItemType", d["clothing_item_type"])
         ELSE IF Has(d, "type")
              THEN Put(d, "clothingItemType", d["type"])
              ELSE Put(d, "clothingItemType", Unknown)
    ELSE d

MutNormalizeLastCleaned(d, t) ==
    IF Has(d, "lastCleaned")
    THEN Put(d, "last_cleaned", d["lastCleaned"])
    ELSE Put(d, "last_cleaned", t)

NormalizeLastCleaned(d, t) ==
    IF ~Has(d, "last_cleaned")
    THEN IF Has(d, "lastCleaned")
         THEN Put(d, "last_cleaned", d["lastCleaned"])
         ELSE Put(d, "last_cleaned", t)
    ELSE d

NormalizeInterval(d) ==
    IF ~Has(d, "cleaning_interval_seconds")
    THEN IF Has(d, "cleaningIntervalSeconds")
         THEN Put(d, "cleaning_interval_seconds", d["cleaningIntervalSeconds"])
         ELSE Put(d, "cleaning_interval_seconds", DefaultInterval)
    ELSE d

\* the only block that can raise: it adds when neither key is there
NormalizeNextRaises(d) ==
    /\ ~Has(d, "next_cleaning_date")
    /\ ~Has(d, "nextCleaningDate")
    /\ ~CanAdd(d["last_cleaned"], d["cleaning_interval_seconds"])

MutNormalizeNext(d) ==
    IF ~Has(d, "next_cleaning_date")
    THEN IF Has(d, "nextCleaningDate")
         THEN Put(d, "next_cleaning_date", d["nextCleaningDate"])
         ELSE Put(d, "next_cleaning_date",
                  NextCleaningDate(d["last_cleaned"], DefaultInterval))
    ELSE d

NormalizeNext(d) ==
    IF ~Has(d, "next_cleaning_date")
    THEN IF Has(d, "nextCleaningDate")
         THEN Put(d, "next_cleaning_date", d["nextCleaningDate"])
         ELSE Put(d, "next_cleaning_date",
                  NextCleaningDate(d["last_cleaned"], d["cleaning_interval_seconds"]))
    ELSE d

NormalizeImage(d) == IF ~Has(d, "image") THEN Put(d, "image", "") ELSE d

NormalizeArchived(d) ==
    IF ~Has(d, "is_archived") THEN Put(d, "is_archived", FALSE) ELSE d

\* the outcome of a call that returns a document or raises
Raised == [kind |-> "raised", doc |-> NoDoc]
Ok(d) == [kind |-> "ok", doc |-> d]

\* _normalize_document(doc) called at time t
Normalize(doc, t) ==
    LET d3 == NormalizeInterval(NormalizeLastCleaned(NormalizeType(doc), t))
    IN  IF NormalizeNextRaises(d3)
        THEN Raised
        ELSE Ok(NormalizeArchived(NormalizeImage(NormalizeNext(d3))))

-----------------------------------------------------------------------------
(* ClothingItemResponse of the dict: pydantic validation of a normalized dict. *)

ResponseKeys ==
    {"_id", "name", "clothingItemType", "image", "last_cleaned",
     "cleaning_interval_seconds", "next_cleaning_date", "is_archived"}

\* fields declared with Field(...): required
RequiredKeys == ResponseKeys \ {"is_archived"}

ResponseValid(d) ==
    /\ RequiredKeys \subseteq DOMAIN d
    /\ IsDatetime(d["last_cleaned"])
    /\ IsInt(d["cleaning_interval_seconds"])
    /\ IsDatetime(d["next_cleaning_date"])

\* the model keeps its declared fields and drops every other key
ToResponse(d) ==
    IF ResponseValid(d)
    THEN Ok(Restrict(NormalizeArchived(d), ResponseKeys))
    ELSE Raised

\* _normalize_document followed by ClothingItemResponse of the dict
NormalizedResponse(doc, t) ==
    LET n == Normalize(doc, t)
    IN  IF n.kind = "raised" THEN Raised ELSE ToResponse(n.doc)

-----------------------------------------------------------------------------
(* The document store: find_one, update_one, find(query).skip().limit(). *)

\* ObjectId(item_id) raises InvalidId on a string that is no ObjectId
ObjectIdValid(item_id) == item_id # 0

\* collection.find_one({"_id": id}): the document, or None
FindOne(s, id) == IF id \in 1..Len(s) THEN s[id] ELSE NoDoc

MutSetFields(doc, fields) ==
    [x \in {"_id"} \cup (DOMAIN fields) |->
        IF x \in DOMAIN fields THEN fields[x] ELSE doc[x]]

\* applies {"$set": fields} to a document
SetFields(doc, fields) ==
    [x \in (DOMAIN doc) \cup (DOMAIN fields) |->
        IF x \in DOMAIN fields THEN fields[x] ELSE doc[x]]

\* collection.update_one({"_id": id}, {"$set": fields}): the collection after it
UpdateOne(s, id, fields) ==
    IF id \in 1..Len(s) THEN [s EXCEPT ![id] = SetFields(s[id], fields)] ELSE s

\* result.modified_count: 1 when the document matched and the $set changed it
ModifiedCount(s, id, fields) == IF UpdateOne(s, id, fields) # s THEN 1 ELSE 0

MutNotArchived(d) == TRUE

\* {"is_archived": {"$ne": True}}: also matches a document with no such field
NotArchived(d) == ~(Has(d, "is_archived") /\ d["is_archived"] = TRUE)

ArchivedFilter(d, include_archived) == include_archived \/ NotArchived(d)

\* cursor.skip(skip).limit(limit) over the matching documents
Page(docs, skip, limit) == SubSeq(docs, skip + 1, Min(Len(docs), skip + limit))

\* the outcome of a call: None, a response, a list of responses, a count,
\* or an exception that leaves the coroutine
Result(kind, doc, items, count) ==
    [kind |-> kind, doc |-> doc, items |-> items, count |-> count]
NoResult == Result("pending", NoDoc, <<>>, 0)
None == Result("none", NoDoc, <<>>, 0)
Raises == Result("raised", NoDoc, <<>>, 0)
Item(d) == Result("item", d, <<>>, 0)
Items(ds) == Result("items", NoDoc, ds, 0)
Count(n) == Result("count", NoDoc, <<>>, n)

\* the loop "async for doc in cursor: normalize, ClothingItemResponse of the dict,
\* append": a document that fails validation raises out of the listing
Responses(docs, t) ==
    IF \E i \in 1..Len(docs) : NormalizedResponse(docs[i], t).kind = "raised"
    THEN Raises
    ELSE Items([i \in 1..Len(docs) |-> NormalizedResponse(docs[i], t).doc])

-----------------------------------------------------------------------------
(* The listings of ClothingItemCRUD, each called at time t on collection s. *)

get_all_clothing_items(s, t, skip, limit, include_archived) ==
    Responses(Page(SelectSeq(s, LAMBDA d : ArchivedFilter(d, include_archived)),
                   skip, limit), t)

get_clothing_items_by_name(s, t, name, skip, limit, include_archived) ==
    Responses(Page(SelectSeq(s, LAMBDA d :
                       /\ Has(d, "name")
                       /\ RegexMatchI(name, d["name"])
                       /\ ArchivedFilter(d, include_archived)),
                   skip, limit), t)

TypeMatches(d, item_type) ==
    Has(d, "clothingItemType") /\ RegexMatchI(item_type, d["clothingItemType"])

get_clothing_items_by_type(s, t, item_type, skip, limit, include_archived) ==
    Responses(Page(SelectSeq(s, LAMBDA d :
                       TypeMatches(d, item_type) /\ ArchivedFilter(d, include_archived)),
                   skip, limit), t)

Mut_get_items_needing_cleaning(s, t, skip, limit, include_archived) ==
    Responses(Page(SelectSeq(s, LAMBDA d :
                       /\ Has(d, "next_cleaning_date")
                       /\ d["next_cleaning_date"] < t
                       /\ ArchivedFilter(d, include_archived)),
                   skip, limit), t)

get_items_needing_cleaning(s, t, skip, limit, include_archived) ==
    Responses(Page(SelectSeq(s, LAMBDA d :
                       /\ Has(d, "next_cleaning_date")
                       /\ d["next_cleaning_date"] <= t
                       /\ ArchivedFilter(d, include_archived)),
                   skip, limit), t)

SecondsPerDay == 86400

get_items_cleaned_recently(s, t, days, skip, limit, include_archived) ==
    Responses(Page(SelectSeq(s, LAMBDA d :
                       /\ Has(d, "last_cleaned")
                       /\ d["last_cleaned"] >= t - days * SecondsPerDay
                       /\ ArchivedFilter(d, include_archived)),
                   skip, limit), t)

get_archived_clothing_items(s, t, skip, limit) ==
    Responses(Page(SelectSeq(s, LAMBDA d :
                       Has(d, "is_archived") /\ d["is_archived"] = TRUE),
                   skip, limit), t)

Mut_get_clothing_item(s, t, item_id, fail) ==
    IF ~ObjectIdValid(item_id) \/ fail \/ FindOne(s, item_id) = NoDoc
       \/ ~NotArchived(FindOne(s, item_id))
    THEN None
    ELSE LET r == NormalizedResponse(FindOne(s, item_id), t)
         IN  IF r.kind = "raised" THEN None ELSE Item(r.doc)

\* get_clothing_item: every exception, and no document, is None
get_clothing_item(s, t, item_id, fail) ==
    IF ~ObjectIdValid(item_id) \/ fail \/ FindOne(s, item_id) = NoDoc
    THEN None
    ELSE LET r == NormalizedResponse(FindOne(s, item_id), t)
         IN  IF r.kind = "raised" THEN None ELSE Item(r.doc)

-----------------------------------------------------------------------------
(* Callers.  call[p] holds the coroutine's arguments and locals, and what   *)
(* the checks need to know of its history: whether a store call failed,    *)
(* whether item_id named a document when the call reached the store, the   *)
(* collection as a writing call first found it, and for the update by      *)
(* type the ids it matched, the ids it wrote to, and the id whose          *)
(* processing raised.                                                      *)

NoCall ==
    [op |-> "idle", item_id |-> 0, interval |-> 0, pattern |-> <<>>,
     flag |-> FALSE, next_date |-> 0, cursor |-> <<>>,
     modified_count |-> 0,
     store_failed |-> FALSE, existed |-> FALSE, before |-> <<>>,
     created_at |-> 0,
     matched |-> {}, attempted |-> {}, failed |-> {},
     result |-> NoResult]

\* p may start a coroutine: it runs none; without overlap the requests are
\* those of one caller, each awaited before the next is sent
Idle(p) == pc[p] = "idle" /\ (IF overlap THEN calls < MaxCalls ELSE p = 1)

\* a coroutine starts
Started == calls' = IF overlap THEN calls + 1 ELSE calls

\* the coroutine of p ends with result r
Finish(p, c, r) ==
    /\ pc' = [pc EXCEPT ![p] = "done"]
    /\ call' = [call EXCEPT ![p] = [c EXCEPT !.result = r]]

\* p moves on to the code after its next await
Goto(p, c, label) ==
    /\ pc' = [pc EXCEPT ![p] = label]
    /\ call' = [call EXCEPT ![p] = c]

Begin(op) == [NoCall EXCEPT !.op = op]

norm == <<overlap, nstage, nraw, nres1, nres2, request, routed>>

-----------------------------------------------------------------------------
(* The routes of src/app.py in the order the decorators register them, and  *)
(* the router's choice: the first route whose path and method match; a      *)
(* path that only routes of other methods match is answered 405, a path no  *)
(* route matches 404.  A path is its sequence of segments; a parameter of   *)
(* a route path matches any one segment.                                    *)

Route(method, path, endpoint) ==
    [method |-> method, path |-> path, endpoint |-> endpoint]

PathParams == {"{item_id}", "{name}", "{item_type}"}

Routes ==
    << Route("GET", <<>>, "root"),
       Route("POST", <<"clothing-items">>, "create_clothing_item"),
       Route("GET", <<"clothing-items">>, "get_all_clothing_items"),
       Route("GET", <<"clothing-items", "archived">>, "get_archived_clothing_items"),
       Route("GET", <<"clothing-items", "{item_id}">>, "get_clothing_item"),
       Route("GET", <<"clothing-items", "search", "{name}">>,
             "search_clothing_items_by_name"),
       Route("GET", <<"clothing-items", "type", "{item_type}">>,
             "get_clothing_items_by_type"),
       Route("PUT", <<"clothing-items", "{item_id}", "cleaning-interval">>,
             "update_item_cleaning_interval"),
       Route("PUT", <<"clothing-items", "type", "{item_type}", "cleaning-interval">>,
             "update_type_cleaning_interval"),
       Route("GET", <<"clothing-items", "needing-cleaning">>,
             "get_items_needing_cleaning"),
       Route("GET", <<"clothing-items", "recently-cleaned">>,
             "get_recently_cleaned_items"),
       Route("PUT", <<"clothing-items", "{item_id}", "archive">>,
             "archive_clothing_item"),
       Route("PUT", <<"clothing-items", "{item_id}", "unarchive">>,
             "unarchive_clothing_item"),
       Route("GET", <<"health">>, "health_check") >>

PathMatches(pattern, path) ==
    /\ Len(pattern) = Len(path)
    /\ \A i \in 1..Len(path) : pattern[i] \in PathParams \/ pattern[i] = path[i]

NotFound == "404"
MethodNotAllowed == "405"

Dispatch(method, path) ==
    LET partial == {i \in 1..Len(Routes) : PathMatches(Routes[i].path, path)}
        full == {i \in partial : Routes[i].method = method}
    IN  IF full # {}
        THEN Routes[CHOOSE i \in full : \A j \in full : i <= j].endpoint
        ELSE IF partial # {} THEN MethodNotAllowed ELSE NotFound

Methods == {"GET", "POST", "PUT"}

Segments ==
    {"clothing-items", "archived", "search", "type", "cleaning-interval",
     "needing-cleaning", "recently-cleaned", "archive", "unarchive", "health",
     "65f0c1"}

Paths == UNION {[1..n -> Segments] : n \in 0..MaxSegments}

NoRequest == [method |-> "none", path |-> <<>>]

RouterOff == request = NoRequest /\ routed = "none"

-----------------------------------------------------------------------------
(* create_clothing_item: the handler of src/app.py builds the item with     *)
(* last_cleaned = utcnow(), the repository adds next_cleaning_date and      *)
(* inserts it, then reads it back.                                          *)

MutNewDocument(id, name, item_type, interval, t) ==
    [_id |-> id, name |-> name, clothingItemType |-> item_type, image |-> "url",
     last_cleaned |-> t, cleaning_interval_seconds |-> interval,
     is_archived |-> FALSE,
     next_cleaning_date |-> t]

NewDocument(id, name, item_type, interval, t) ==
    [_id |-> id, name |-> name, clothingItemType |-> item_type, image |-> "url",
     last_cleaned |-> t, cleaning_interval_seconds |-> interval,
     is_archived |-> FALSE,
     next_cleaning_date |-> NextCleaningDate(t, interval)]

CreateInsert(p, name, item_type, interval, fail) ==
    /\ Idle(p)
    /\ Started
    /\ Len(store) < MaxItems
    /\ LET c == [Begin("create") EXCEPT !.interval = interval,
                                        !.store_failed = fail,
                                        !.before = store,
                                        !.created_at = now]
       IN  IF fail
           THEN /\ Finish(p, c, Raises)
                /\ UNCHANGED <<store, created>>
           ELSE LET id == Len(store) + 1
                IN  /\ store' = Append(store,
                                   NewDocument(id, name, item_type, interval, now))
                    /\ created' = created \cup {id}
                    /\ Goto(p, [c EXCEPT !.item_id = id, !.existed = TRUE],
                            "create_find")
    /\ UNCHANGED <<now, norm>>

CreateFind(p, fail) ==
    /\ pc[p] = "create_find"
    /\ LET c == call[p]
           r == ToResponse(FindOne(store, c.item_id))
       IN  IF fail \/ r.kind = "raised"
           THEN Finish(p, [c EXCEPT !.store_failed = fail], Raises)
           ELSE Finish(p, c, Item(r.doc))
    /\ UNCHANGED <<calls, store, now, created, norm>>

-----------------------------------------------------------------------------
(* update_item_cleaning_interval: find_one, update_one, find_one.          *)

MutIntervalFields(interval, next_date) ==
    [cleaning_interval_seconds |-> interval]

MutIntervalFieldsUnarchive(interval, next_date) ==
    [cleaning_interval_seconds |-> interval, next_cleaning_date |-> next_date,
     is_archived |-> FALSE]

MutIntervalFieldsCleaned(interval, next_date) ==
    [cleaning_interval_seconds |-> interval, next_cleaning_date |-> next_date,
     last_cleaned |-> next_date]

\* the $set document both interval updates write
IntervalFields(interval, next_date) ==
    [cleaning_interval_seconds |-> interval, next_cleaning_date |-> next_date]

MutNewNextCleaningDate(doc, interval, t) == NextCleaningDate(t, interval)

\* new_next_cleaning_date = last_cleaned + timedelta(seconds=new_interval_seconds),
\* computed at time t from the document that was read
NewNextCleaningDate(doc, interval, t) ==
    NextCleaningDate(doc["last_cleaned"], interval)

\* doc["last_cleaned"] raises KeyError, the addition TypeError
NewNextRaises(doc, interval) ==
    ~Has(doc, "last_cleaned") \/ ~CanAdd(doc["last_cleaned"], interval)

UpdateItemRead(p, item_id, interval, fail) ==
    /\ Idle(p)
    /\ Started
    /\ LET doc == FindOne(store, item_id)
           c == [Begin("update_item") EXCEPT
                    !.item_id = item_id, !.interval = interval,
                    !.store_failed = ObjectIdValid(item_id) /\ fail,
                    !.existed = doc # NoDoc, !.before = store]
       IN  IF ~ObjectIdValid(item_id) \/ fail \/ doc = NoDoc
           THEN Finish(p, c, None)
           ELSE IF NewNextRaises(doc, interval)
                THEN Finish(p, c, None)
                ELSE Goto(p, [c EXCEPT !.next_date =
                                   NewNextCleaningDate(doc, interval, now)],
                          "update_item_write")
    /\ UNCHANGED <<store, now, created, norm>>

\* if result.modified_count > 0, for the update_one of call c
UpdateItemModified(c) ==
    ModifiedCount(store, c.item_id, IntervalFields(c.interval, c.next_date)) > 0

UpdateItemWrite(p, fail) ==
    /\ pc[p] = "update_item_write"
    /\ LET c == call[p]
           fields == IntervalFields(c.interval, c.next_date)
       IN  IF fail
           THEN /\ Finish(p, [c EXCEPT !.store_failed = TRUE], None)
                /\ UNCHANGED store
           ELSE /\ store' = UpdateOne(store, c.item_id, fields)
                /\ IF UpdateItemModified(c)
                   THEN Goto(p, [c EXCEPT !.modified_count = 1], "update_item_find")
                   ELSE Finish(p, c, None)
    /\ UNCHANGED <<calls, now, created, norm>>

\* the read of the updated document, shared by update, archive and unarchive:
\* any exception in it is swallowed into None
FindUpdated(p, fail) ==
    LET c == call[p]
        doc == FindOne(store, c.item_id)
        r == NormalizedResponse(doc, now)
    IN  /\ IF fail \/ doc = NoDoc \/ r.kind = "raised"
           THEN Finish(p, [c EXCEPT !.store_failed = fail], None)
           ELSE Finish(p, c, Item(r.doc))
        /\ UNCHANGED <<calls, store, now, created, norm>>

UpdateItemFind(p, fail) ==
    /\ pc[p] = "update_item_find"
    /\ FindUpdated(p, fail)

-----------------------------------------------------------------------------
(* archive_clothing_item and unarchive_clothing_item: update_one, find_one. *)

MutArchiveFields(flag) == [archived |-> flag]

ArchiveFields(flag) == [is_archived |-> flag]

\* if result.modified_count > 0, for the update_one that sets is_archived
ArchiveModified(s, item_id, flag) ==
    ModifiedCount(s, item_id, ArchiveFields(flag)) > 0

SetArchived(p, op, item_id, flag, fail, label) ==
    /\ LET c == [Begin(op) EXCEPT
                    !.item_id = item_id, !.flag = flag,
                    !.store_failed = ObjectIdValid(item_id) /\ fail,
                    !.existed = FindOne(store, item_id) # NoDoc,
                    !.before = store]
       IN  IF ~ObjectIdValid(item_id) \/ fail
           THEN /\ Finish(p, c, None)
                /\ UNCHANGED store
           ELSE /\ store' = UpdateOne(store, item_id, ArchiveFields(flag))
                /\ IF ArchiveModified(store, item_id, flag)
                   THEN Goto(p, [c EXCEPT !.modified_count = 1], label)
                   ELSE Finish(p, c, None)
    /\ UNCHANGED <<now, created, norm>>

ArchiveWrite(p, item_id, fail) ==
    /\ Idle(p)
    /\ Started
    /\ SetArchived(p, "archive", item_id, TRUE, fail, "archive_find")

ArchiveFind(p, fail) ==
    /\ pc[p] = "archive_find"
    /\ FindUpdated(p, fail)

UnarchiveWrite(p, item_id, fail) ==
    /\ Idle(p)
    /\ Started
    /\ SetArchived(p, "unarchive", item_id, FALSE, fail, "unarchive_find")

UnarchiveFind(p, fail) ==
    /\ pc[p] = "unarchive_find"
    /\ FindUpdated(p, fail)

-----------------------------------------------------------------------------
(* update_type_cleaning_interval: one find, then one update_one per        *)
(* document of the cursor; any exception leaves the loop and is re-raised. *)

\* what the loop reads of a cursor document: doc["_id"], doc["last_cleaned"]
CursorKeys == {"_id", "last_cleaned"}

MutCursorOf(s, item_type) ==
    LET docs == SelectSeq(s, LAMBDA d : TypeMatches(d, item_type) /\ NotArchived(d))
    IN  [i \in 1..Len(docs) |-> Restrict(docs[i], CursorKeys)]

CursorOf(s, item_type) ==
    LET docs == SelectSeq(s, LAMBDA d : TypeMatches(d, item_type))
    IN  [i \in 1..Len(docs) |-> Restrict(docs[i], CursorKeys)]

Ids(docs) == {docs[i]["_id"] : i \in 1..Len(docs)}

MutTypeModified(s, id, fields) == id \in 1..Len(s)

\* if result.modified_count > 0, inside the loop
TypeModified(s, id, fields) == ModifiedCount(s, id, fields) > 0

TypeFind(p, item_type, interval, fail) ==
    /\ Idle(p)
    /\ Started
    /\ LET cursor == CursorOf(store, item_type)
           c == [Begin("update_type") EXCEPT
                    !.pattern = item_type, !.interval = interval,
                    !.store_failed = fail, !.before = store]
       IN  IF fail
           THEN Finish(p, c, Raises)
           ELSE IF cursor = <<>>
                THEN Finish(p, c, Count(0))
                ELSE Goto(p, [c EXCEPT !.cursor = cursor, !.matched = Ids(cursor)],
                          "update_type_loop")
    /\ UNCHANGED <<store, now, created, norm>>

TypeUpdateOne(p, fail) ==
    /\ pc[p] = "update_type_loop"
    /\ LET c == call[p]
           doc == Head(c.cursor)
           id == doc["_id"]
       IN  IF NewNextRaises(doc, c.interval)
           THEN /\ Finish(p, [c EXCEPT !.failed = {id}], Raises)
                /\ UNCHANGED store
           ELSE IF fail
                THEN /\ Finish(p, [c EXCEPT !.failed = {id}, !.store_failed = TRUE],
                               Raises)
                     /\ UNCHANGED store
                ELSE LET fields == IntervalFields(c.interval,
                                       NewNextCleaningDate(doc, c.interval, now))
                         n == IF TypeModified(store, id, fields)
                              THEN c.modified_count + 1
                              ELSE c.modified_count
                         s2 == UpdateOne(store, id, fields)
                         c2 == [c EXCEPT
                                  !.cursor = Tail(c.cursor),
                                  !.modified_count = n,
                                  !.attempted = @ \cup {id}]
                     IN  /\ store' = s2
                         /\ IF Tail(c.cursor) = <<>>
                            THEN Finish(p, c2, Count(n))
                            ELSE Goto(p, c2, "update_type_loop")
    /\ UNCHANGED <<calls, now, created, norm>>

-----------------------------------------------------------------------------
(* The reads: each is one find. *)

DaysInputs == {1}

\* a listing called with include_archived = inc ends with r
Read(p, op, inc, r) ==
    /\ Started
    /\ Finish(p, [Begin(op) EXCEPT !.flag = inc], r)
    /\ UNCHANGED <<store, now, created, norm>>

OrRaise(fail, r) == IF fail THEN Raises ELSE r

GetItem(p, item_id, fail) ==
    /\ Idle(p)
    /\ Started
    /\ Finish(p, [Begin("get") EXCEPT
                     !.item_id = item_id,
                     !.store_failed = ObjectIdValid(item_id) /\ fail,
                     !.existed = FindOne(store, item_id) # NoDoc],
              get_clothing_item(store, now, item_id, fail))
    /\ UNCHANGED <<store, now, created, norm>>

GetAll(p, skip, limit, inc, fail) ==
    /\ Idle(p)
    /\ Read(p, "list", inc,
            OrRaise(fail, get_all_clothing_items(store, now, skip, limit, inc)))

ByName(p, name, skip, limit, inc, fail) ==
    /\ Idle(p)
    /\ Read(p, "by_name", inc,
            OrRaise(fail, get_clothing_items_by_name(store, now, name, skip, limit, inc)))

ByType(p, item_type, skip, limit, inc, fail) ==
    /\ Idle(p)
    /\ Read(p, "by_type", inc,
            OrRaise(fail, get_clothing_items_by_type(store, now, item_type, skip, limit, inc)))

NeedingCleaning(p, skip, limit, inc, fail) ==
    /\ Idle(p)
    /\ Read(p, "needing_cleaning", inc,
            OrRaise(fail, get_items_needing_cleaning(store, now, skip, limit, inc)))

CleanedRecently(p, days, skip, limit, inc, fail) ==
    /\ Idle(p)
    /\ Read(p, "recently_cleaned", inc,
            OrRaise(fail, get_items_cleaned_recently(store, now, days, skip, limit, inc)))

GetArchived(p, skip, limit, fail) ==
    /\ Idle(p)
    /\ Read(p, "archived", TRUE,
            OrRaise(fail, get_archived_clothing_items(store, now, skip, limit)))

\* the caller takes the result
Return(p) ==
    /\ pc[p] = "done"
    /\ pc' = [pc EXCEPT ![p] = "idle"]
    /\ call' = [call EXCEPT ![p] = NoCall]
    /\ UNCHANGED <<calls, store, now, created, norm>>

Tick ==
    /\ now < MaxTime
    /\ now' = now + 1
    /\ UNCHANGED <<calls, store, pc, call, created, norm>>

-----------------------------------------------------------------------------
(* Documents written before the present schema: what _normalize_document    *)
(* is there for.  The collection starts empty or with one of them.          *)

LegacyDocs ==
    { \* no last_cleaned under any key
      [_id |-> 1, name |-> <<"B", "t">>, clothingItemType |-> <<"s", "h">>,
       image |-> "url", cleaning_interval_seconds |-> 1,
       next_cleaning_date |-> 1, is_archived |-> FALSE],
      \* the alternate keys only
      [_id |-> 1, name |-> <<"B", "t">>, type |-> <<"P">>, lastCleaned |-> 0,
       cleaningIntervalSeconds |-> 2, nextCleaningDate |-> 2],
      \* neither interval nor next date
      [_id |-> 1, name |-> <<"B", "t">>, clothingItemType |-> <<"s", "h">>,
       image |-> "url", last_cleaned |-> 0],
      \* no name
      [_id |-> 1, clothingItemType |-> <<"P">>, image |-> "url",
       last_cleaned |-> 0, cleaning_interval_seconds |-> 1,
       next_cleaning_date |-> 1, is_archived |-> FALSE],
      \* a next date that is not last_cleaned + interval
      [_id |-> 1, name |-> <<"B", "t">>, clothingItemType |-> <<"s", "h">>,
       image |-> "url", last_cleaned |-> 0, cleaning_interval_seconds |-> 1,
       next_cleaning_date |-> 2, is_archived |-> FALSE] }

InitStores == {<<>>} \cup {<<d>> : d \in LegacyDocs}

InitService ==
    /\ store \in InitStores
    /\ now = 0
    /\ pc = [p \in Procs |-> "idle"]
    /\ call = [p \in Procs |-> NoCall]
    /\ created = {}
    /\ calls = 0

InitHarnessOff ==
    /\ nstage = 0
    /\ nraw = NoDoc
    /\ nres1 = Raised
    /\ nres2 = Raised
    /\ RouterOff

\* requests served one at a time
Init == InitService /\ overlap = FALSE /\ InitHarnessOff

\* requests overlapping at their awaits, on a collection that starts empty
InitConc == InitService /\ store = <<>> /\ overlap = TRUE /\ InitHarnessOff

\* the coroutines that write, and the read of one item
Writes(p) ==
    \/ \E name \in NameInputs, item_type \in TypeInputs,
          interval \in IntervalInputs, fail \in BOOLEAN :
            CreateInsert(p, name, item_type, interval, fail)
    \/ \E fail \in BOOLEAN : CreateFind(p, fail)
    \/ \E item_id \in IdInputs, interval \in IntervalInputs, fail \in BOOLEAN :
            UpdateItemRead(p, item_id, interval, fail)
    \/ \E fail \in BOOLEAN : UpdateItemWrite(p, fail)
    \/ \E fail \in BOOLEAN : UpdateItemFind(p, fail)
    \/ \E item_type \in PatternInputs, interval \in IntervalInputs,
          fail \in BOOLEAN :
            TypeFind(p, item_type, interval, fail)
    \/ \E fail \in BOOLEAN : TypeUpdateOne(p, fail)
    \/ \E item_id \in IdInputs, fail \in BOOLEAN : ArchiveWrite(p, item_id, fail)
    \/ \E fail \in BOOLEAN : ArchiveFind(p, fail)
    \/ \E item_id \in IdInputs, fail \in BOOLEAN : UnarchiveWrite(p, item_id, fail)
    \/ \E fail \in BOOLEAN : UnarchiveFind(p, fail)
    \/ \E item_id \in IdInputs, fail \in BOOLEAN : GetItem(p, item_id, fail)
    \/ Return(p)

\* the listings
Listings(p) ==
    \E skip \in SkipInputs, limit \in LimitInputs, fail \in BOOLEAN :
        \/ \E inc \in BOOLEAN :
            \/ GetAll(p, skip, limit, inc, fail)
            \/ NeedingCleaning(p, skip, limit, inc, fail)
            \/ \E text \in PatternInputs :
                \/ ByName(p, text, skip, limit, inc, fail)
                \/ ByType(p, text, skip, limit, inc, fail)
            \/ \E days \in DaysInputs :
                CleanedRecently(p, days, skip, limit, inc, fail)
        \/ GetArchived(p, skip, limit, fail)

Next == (\E p \in Procs : Writes(p) \/ Listings(p)) \/ Tick

\* What overlapping callers send: the writes, with ids of documents and
\* one type; the store does not fail.
ConcTypeInputs == {<<"s", "h">>}
ConcPatternInputs == {<<"S">>, <<"p">>}
ConcIdInputs == 1..MaxItems

ConcWrites(p) ==
    \/ \E name \in NameInputs, item_type \in ConcTypeInputs,
          interval \in IntervalInputs :
            CreateInsert(p, name, item_type, interval, FALSE)
    \/ CreateFind(p, FALSE)
    \/ \E item_id \in ConcIdInputs, interval \in IntervalInputs :
            UpdateItemRead(p, item_id, interval, FALSE)
    \/ UpdateItemWrite(p, FALSE)
    \/ UpdateItemFind(p, FALSE)
    \/ \E item_type \in ConcPatternInputs, interval \in IntervalInputs :
            TypeFind(p, item_type, interval, FALSE)
    \/ TypeUpdateOne(p, FALSE)
    \/ \E item_id \in ConcIdInputs : ArchiveWrite(p, item_id, FALSE)
    \/ ArchiveFind(p, FALSE)
    \/ \E item_id \in ConcIdInputs : UnarchiveWrite(p, item_id, FALSE)
    \/ UnarchiveFind(p, FALSE)
    \/ Return(p)

NextConc == (\E p \in Procs : ConcWrites(p)) \/ Tick

Spec == Init /\ [][Next]_vars

SpecConc == InitConc /\ [][NextConc]_vars

-----------------------------------------------------------------------------
(* The needing-cleaning listing around a due date one week after creation:  *)
(* items are created with the one-week interval on a collection that starts *)
(* empty, and the clock moves between the instants around the creation and  *)
(* around one week later.                                                   *)

WeekSeconds == 604800

Instants == (0..MaxTime) \cup ((WeekSeconds - 1)..(WeekSeconds + MaxTime + 1))

\* datetime.utcnow() is later at a later call
Elapse ==
    /\ \E t \in Instants : t > now /\ now' = t
    /\ UNCHANGED <<calls, store, pc, call, created, norm>>

DueRequests(p) ==
    \/ \E name \in NameInputs, item_type \in TypeInputs :
            CreateInsert(p, name, item_type, WeekSeconds, FALSE)
    \/ CreateFind(p, FALSE)
    \/ \E item_id \in ConcIdInputs : ArchiveWrite(p, item_id, FALSE)
    \/ ArchiveFind(p, FALSE)
    \/ \E skip \in SkipInputs, limit \in LimitInputs, inc \in BOOLEAN :
            NeedingCleaning(p, skip, limit, inc, FALSE)
    \/ Return(p)

NextDue == (\E p \in Procs : DueRequests(p)) \/ Elapse

InitDue == InitService /\ store = <<>> /\ overlap = FALSE /\ InitHarnessOff

SpecDue == InitDue /\ [][NextDue]_vars

\* the same requests and clock on a collection that may start with a
\* legacy document
SpecDueLegacy == Init /\ [][NextDue]_vars

-----------------------------------------------------------------------------
(* Harness for _normalize_document as a function: a raw document is drawn,  *)
(* normalized, and the outcome normalized again, the clock running between. *)

OptionalKeys ==
    {"name", "clothingItemType", "clothing_item_type", "type", "image",
     "last_cleaned", "lastCleaned", "cleaning_interval_seconds",
     "cleaningIntervalSeconds", "next_cleaning_date", "nextCleaningDate",
     "is_archived"}

\* every key present; last_cleaned and the interval well-formed or not
FullDocs ==
    { [_id |-> 1, name |-> <<"B">>, clothingItemType |-> <<"s">>,
       clothing_item_type |-> <<"p">>, type |-> <<"h">>, image |-> "url",
       last_cleaned |-> lc, lastCleaned |-> 1,
       cleaning_interval_seconds |-> iv, cleaningIntervalSeconds |-> 2,
       next_cleaning_date |-> 5, nextCleaningDate |-> 6, is_archived |-> TRUE] :
      lc \in {0, Malformed}, iv \in {1, Malformed} }

RawDocs == {Restrict(d, ks \cup {"_id"}) : d \in FullDocs, ks \in SUBSET OptionalKeys}

InitNorm ==
    /\ store = <<>>
    /\ now = 0
    /\ pc = [p \in Procs |-> "idle"]
    /\ call = [p \in Procs |-> NoCall]
    /\ created = {}
    /\ overlap = FALSE
    /\ calls = 0
    /\ nstage = 0
    /\ nraw \in RawDocs
    /\ nres1 = Raised
    /\ nres2 = Raised
    /\ RouterOff

service == <<store, pc, call, created, overlap, calls, request, routed>>

NormalizeOnce ==
    /\ nstage = 0
    /\ nres1' = Normalize(nraw, now)
    /\ nstage' = 1
    /\ UNCHANGED <<service, now, nraw, nres2>>

NormalizeAgain ==
    /\ nstage = 1
    /\ nres1.kind = "ok"
    /\ nres2' = Normalize(nres1.doc, now)
    /\ nstage' = 2
    /\ UNCHANGED <<service, now, nraw, nres1>>

NextNorm == NormalizeOnce \/ NormalizeAgain \/ Tick

SpecNorm == InitNorm /\ [][NextNorm]_vars

-----------------------------------------------------------------------------
(* The handlers of src/app.py that take an interval, with the validation    *)
(* their parameters declare: the form field of create is an int, the query  *)
(* parameter of the two updates an int with ge=1.  A request that fails     *)
(* validation is answered 422 and calls nothing.                            *)

\* intervals a client may send: zero stands for the non-positive ones
RequestIntervals == 0..MaxInterval

\* cleaning_interval_seconds: int = Form(...)
CreateAccepts(interval) == interval \in Int

\* cleaning_interval_seconds: int = Query(..., ge=1)
UpdateAccepts(interval) == interval \in Int /\ interval >= 1

PostClothingItem(p, name, item_type, interval) ==
    /\ CreateAccepts(interval)
    /\ CreateInsert(p, name, item_type, interval, FALSE)

PutItemInterval(p, item_id, interval) ==
    /\ UpdateAccepts(interval)
    /\ UpdateItemRead(p, item_id, interval, FALSE)

PutTypeInterval(p, item_type, interval) ==
    /\ UpdateAccepts(interval)
    /\ TypeFind(p, item_type, interval, FALSE)

ValidRequests(p) ==
    \/ \E name \in NameInputs, item_type \in TypeInputs,
          interval \in RequestIntervals :
            PostClothingItem(p, name, item_type, interval)
    \/ CreateFind(p, FALSE)
    \/ \E item_id \in ConcIdInputs, interval \in RequestIntervals :
            PutItemInterval(p, item_id, interval)
    \/ UpdateItemWrite(p, FALSE)
    \/ UpdateItemFind(p, FALSE)
    \/ \E item_type \in ConcPatternInputs, interval \in RequestIntervals :
            PutTypeInterval(p, item_type, interval)
    \/ TypeUpdateOne(p, FALSE)
    \/ Return(p)

NextValid == (\E p \in Procs : ValidRequests(p)) \/ Tick

InitValid == InitService /\ store = <<>> /\ overlap = FALSE /\ InitHarnessOff

SpecValid == InitValid /\ [][NextValid]_vars

-----------------------------------------------------------------------------
(* The router on its own: a request arrives, is dispatched, is answered.    *)

Receive ==
    /\ request = NoRequest
    /\ \E method \in Methods, path \in Paths :
            request' = [method |-> method, path |-> path]
    /\ UNCHANGED <<store, now, pc, call, created, overlap, calls,
                   nstage, nraw, nres1, nres2, routed>>

DispatchRequest ==
    /\ request # NoRequest
    /\ routed = "none"
    /\ routed' = Dispatch(request.method, request.path)
    /\ UNCHANGED <<store, now, pc, call, created, overlap, calls,
                   nstage, nraw, nres1, nres2, request>>

Respond ==
    /\ routed # "none"
    /\ request' = NoRequest
    /\ routed' = "none"
    /\ UNCHANGED <<store, now, pc, call, created, overlap, calls,
                   nstage, nraw, nres1, nres2>>

InitRoute == InitService /\ store = <<>> /\ overlap = FALSE /\ InitHarnessOff

NextRoute == Receive \/ DispatchRequest \/ Respond

SpecRoute == InitRoute /\ [][NextRoute]_vars

-----------------------------------------------------------------------------
(* Properties.  Spec serves one request at a time, SpecConc has the writes  *)
(* of two callers overlap, SpecNorm runs the normalizer on raw documents.   *)

Done(p, op) == pc[p] = "done" /\ call[p].op = op

Busy(p) == pc[p] \notin {"idle", "done"}

\* the document stored under id keeps the schedule invariant
ScheduleHolds(d) ==
    /\ Has(d, "last_cleaned")
    /\ Has(d, "cleaning_interval_seconds")
    /\ Has(d, "next_cleaning_date")
    /\ d["next_cleaning_date"] = d["last_cleaned"] + d["cleaning_interval_seconds"]

\* C1: in every reachable state, whatever creates, interval updates (single
\* and by type), archives and unarchives ran or are under way, every
\* document inserted by create has
\* next_cleaning_date = last_cleaned + cleaning_interval_seconds.
C1_ScheduleInvariant == \A id \in created : ScheduleHolds(store[id])

\* C1 witness: an interval update of a created item has returned its record
\* at a time after the item's last_cleaned, while another caller is between
\* two store calls of its own write.
C1_Witness ==
    \E p, q \in Procs :
        /\ Done(p, "update_item")
        /\ call[p].result.kind = "item"
        /\ call[p].item_id \in created
        /\ store[call[p].item_id]["last_cleaned"] < now
        /\ Busy(q)

\* C2: when update_item_cleaning_interval(id, n) returns the record, the
\* stored document has cleaning_interval_seconds = n and
\* next_cleaning_date = last_cleaned + n, with last_cleaned the value the
\* document had when the call began.
C2_UpdateRecomputes ==
    \A p \in Procs :
        (Done(p, "update_item") /\ call[p].result.kind = "item") =>
            LET c == call[p]
                d == store[c.item_id]
                b == c.before[c.item_id]
            IN  /\ d["last_cleaned"] = b["last_cleaned"]
                /\ d["cleaning_interval_seconds"] = c.interval
                /\ d["next_cleaning_date"] = b["last_cleaned"] + c.interval
                /\ c.result.doc["cleaning_interval_seconds"] = c.interval
                /\ c.result.doc["next_cleaning_date"] = b["last_cleaned"] + c.interval

\* C2 witness: such an update has returned, at a time that is not the
\* item's last_cleaned, with an interval the item did not have.
C2_Witness ==
    \E p \in Procs :
        /\ Done(p, "update_item")
        /\ call[p].result.kind = "item"
        /\ call[p].item_id \in created
        /\ call[p].before[call[p].item_id]["last_cleaned"] < now
        /\ call[p].before[call[p].item_id]["cleaning_interval_seconds"]
               # call[p].interval

NoneArchived(r) ==
    r.kind = "items" => \A i \in 1..Len(r.items) : r.items[i]["is_archived"] = FALSE

AllArchived(r) ==
    r.kind = "items" => \A i \in 1..Len(r.items) : r.items[i]["is_archived"] = TRUE

DefaultListings == {"list", "by_name", "by_type", "needing_cleaning", "recently_cleaned"}

\* C3: on every reachable collection, for every page and search text, the
\* listings called without include_archived (list, by name, by type,
\* needing cleaning, recently cleaned) return no record with
\* is_archived = TRUE, and the archived listing returns only such records;
\* so does every listing a caller has been answered.
C3_ArchivalExclusion ==
    /\ \A skip \in SkipInputs, limit \in LimitInputs :
        /\ NoneArchived(get_all_clothing_items(store, now, skip, limit, FALSE))
        /\ NoneArchived(get_items_needing_cleaning(store, now, skip, limit, FALSE))
        /\ \A days \in DaysInputs :
            NoneArchived(get_items_cleaned_recently(store, now, days, skip, limit, FALSE))
        /\ \A text \in PatternInputs :
            /\ NoneArchived(get_clothing_items_by_name(store, now, text, skip, limit, FALSE))
            /\ NoneArchived(get_clothing_items_by_type(store, now, text, skip, limit, FALSE))
        /\ AllArchived(get_archived_clothing_items(store, now, skip, limit))
    /\ \A p \in Procs :
        /\ (pc[p] = "done" /\ call[p].op \in DefaultListings /\ ~call[p].flag)
               => NoneArchived(call[p].result)
        /\ Done(p, "archived") => AllArchived(call[p].result)

\* C3 witness: the collection holds an archived and a live document, and a
\* default list has just returned one record.
C3_Witness ==
    /\ Len(store) = 2
    /\ \E i, j \in 1..2 : ~NotArchived(store[i]) /\ NotArchived(store[j])
    /\ \E p \in Procs :
        /\ Done(p, "list")
        /\ ~call[p].flag
        /\ call[p].result.kind = "items"
        /\ Len(call[p].result.items) = 1

\* C4: update_item_cleaning_interval returns the record whenever item_id
\* names a document (here: one inserted by create, the store not failing),
\* for every new interval, the current one included.
C4_UpdateReturnsRecord ==
    \A p \in Procs :
        (/\ Done(p, "update_item")
         /\ call[p].existed
         /\ call[p].item_id \in created
         /\ ~call[p].store_failed)
        => call[p].result.kind = "item"

\* C5: archive and unarchive return the record whenever item_id names a
\* document (here: one inserted by create, the store not failing), also
\* when the document is already in the requested state.
C5_ArchiveReturnsRecord ==
    \A p \in Procs :
        (/\ pc[p] = "done"
         /\ call[p].op \in {"archive", "unarchive"}
         /\ call[p].existed
         /\ call[p].item_id \in created
         /\ ~call[p].store_failed)
        => call[p].result.kind = "item"

\* the interval or the next date stored under id differs between s and s2
ScheduleChanged(s, s2, id) ==
    \E k \in {"cleaning_interval_seconds", "next_cleaning_date"} :
        \/ Has(s[id], k) # Has(s2[id], k)
        \/ Has(s[id], k) /\ Has(s2[id], k) /\ s[id][k] # s2[id][k]

\* C6: when update_type_cleaning_interval returns, modified_count is the
\* number of matching documents whose stored interval or next date differs
\* from what it was when the call began; a matching document whose interval
\* differed from the target is among them, and one that held the target
\* interval with the next date that goes with it is not.
C6_ModifiedCount ==
    \A p \in Procs :
        (Done(p, "update_type") /\ call[p].result.kind = "count") =>
            LET c == call[p]
                counted == {id \in c.matched : ScheduleChanged(c.before, store, id)}
            IN  /\ c.result.count = Cardinality(counted)
                /\ c.matched = {id \in 1..Len(c.before) :
                                    TypeMatches(c.before[id], c.pattern)}
                /\ \A id \in c.matched :
                    LET b == c.before[id]
                    IN  /\ (Has(b, "cleaning_interval_seconds")
                            /\ b["cleaning_interval_seconds"] # c.interval)
                               => id \in counted
                        /\ (ScheduleHolds(b)
                            /\ b["cleaning_interval_seconds"] = c.interval)
                               => id \notin counted

\* C6 witness: the update matched two documents, one at the target interval
\* and one not, and returned 1.
C6_Witness ==
    \E p \in Procs :
        /\ Done(p, "update_type")
        /\ call[p].result.kind = "count"
        /\ Cardinality(call[p].matched) = 2
        /\ call[p].result.count = 1
        /\ \E id \in call[p].matched :
            /\ ScheduleHolds(call[p].before[id])
            /\ call[p].before[id]["cleaning_interval_seconds"] = call[p].interval

\* C7: when update_type_cleaning_interval ends, every matching document
\* other than one whose processing failed has been written to.
C7_BatchNotAborted ==
    \A p \in Procs :
        Done(p, "update_type") =>
            \A id \in call[p].matched \ call[p].failed : id \in call[p].attempted

\* C8: get, update-interval (single), archive and unarchive answer None
\* only for a malformed id or a missing document, never after a store call
\* of theirs failed.
C8_StoreFailurePropagates ==
    \A p \in Procs :
        (/\ pc[p] = "done"
         /\ call[p].op \in {"get", "update_item", "archive", "unarchive"}
         /\ call[p].store_failed)
        => call[p].result.kind # "none"

\* C9: normalizing the outcome of a normalization, at the same or a later
\* time, returns it unchanged.
C9_NormalizeIdempotent == nstage = 2 => nres2 = nres1

\* C9 witness: the raw document had last_cleaned under neither key, the
\* first normalization defaulted it to its time, and the second ran later.
C9_Witness ==
    /\ nstage = 2
    /\ ~Has(nraw, "last_cleaned")
    /\ ~Has(nraw, "lastCleaned")
    /\ nres1.doc["last_cleaned"] < now

\* C10: normalizing any document that has its identifier raises nothing and
\* yields every field of the response model.
C10_NormalizeTotal ==
    nstage >= 1 => (nres1.kind = "ok" /\ ResponseKeys \subseteq DOMAIN nres1.doc)


-----------------------------------------------------------------------------
\* C11: when create has returned a record, the collection holds one more
\* document than when the call began, under a new id; that document has
\* last_cleaned equal to the time of the call, next_cleaning_date =
\* last_cleaned + cleaning_interval_seconds with the interval of the request,
\* and is_archived false; the returned record is that document, id included.
C11_CreateStoresRecord ==
    \A p \in Procs :
        (Done(p, "create") /\ call[p].result.kind = "item") =>
            LET c == call[p]
                d == store[c.item_id]
            IN  /\ Len(store) = Len(c.before) + 1
                /\ c.item_id = Len(store)
                /\ \A i \in 1..Len(c.before) : store[i] = c.before[i]
                /\ d["_id"] = c.item_id
                /\ d["last_cleaned"] = c.created_at
                /\ d["cleaning_interval_seconds"] = c.interval
                /\ d["next_cleaning_date"] = c.created_at + c.interval
                /\ d["is_archived"] = FALSE
                /\ c.result.doc = d

\* C11 witness: a create made after the clock moved has returned its record,
\* beside a document that was stored before.
C11_Witness ==
    \E p \in Procs :
        /\ Done(p, "create")
        /\ call[p].result.kind = "item"
        /\ call[p].created_at > 0
        /\ call[p].item_id > 1


-----------------------------------------------------------------------------
\* the ids the default needing-cleaning listing returns at time t, on a page
\* that covers the collection
DueIds(t) ==
    LET r == get_items_needing_cleaning(store, t, 0, MaxItems, FALSE)
    IN  IF r.kind = "items" THEN Ids(r.items) ELSE {}

\* a created item with the one-week interval that is not archived
WeekItem(id) ==
    /\ id \in created
    /\ store[id]["cleaning_interval_seconds"] = WeekSeconds
    /\ store[id]["is_archived"] = FALSE

\* C12, as stated: a non-archived item created with last_cleaned = T and
\* the one-week interval is returned by the needing-cleaning listing at
\* T + 604800 + 1 and is not returned at T + 604800.
C12_DueAfterOneWeek ==
    \A id \in created :
        WeekItem(id) =>
            LET T == store[id]["last_cleaned"]
            IN  /\ (now = T + WeekSeconds + 1) => id \in DueIds(now)
                /\ (now = T + WeekSeconds) => id \notin DueIds(now)

\* C12, amended: a non-archived item created with last_cleaned = T and the
\* one-week interval is returned by the needing-cleaning listing at every
\* time from T + 604800 on, T + 604800 itself and T + 604800 + 1 included,
\* and is not returned at any earlier time, T + 604800 - 1 included.
C12_DueFromOneWeek ==
    \A id \in created :
        WeekItem(id) =>
            LET T == store[id]["last_cleaned"]
            IN  id \in DueIds(now) <=> now >= T + WeekSeconds

\* C12 witness: the needing-cleaning listing has returned a created item
\* exactly one week after its last_cleaned.
C12_Witness ==
    \E p \in Procs, id \in created :
        /\ Done(p, "needing_cleaning")
        /\ call[p].result.kind = "items"
        /\ id \in Ids(call[p].result.items)
        /\ WeekItem(id)
        /\ now = store[id]["last_cleaned"] + WeekSeconds


-----------------------------------------------------------------------------
\* the default list and the archived list, on a page that covers the
\* collection
DefaultList == get_all_clothing_items(store, now, 0, MaxItems, FALSE)

ArchivedList == get_archived_clothing_items(store, now, 0, MaxItems)

\* every stored document has the name the response model requires
AllNamed == \A i \in 1..Len(store) : Has(store[i], "name")

\* C13: once archive(id) has returned the record, the default list does not
\* hold id and the archived list holds it; once unarchive(id) has returned
\* the record, the default list holds id and the archived list does not.
\* The lists are taken on a page that covers the collection; they answer
\* whenever every stored document has a name.
C13_ArchiveMovesItem ==
    \A p \in Procs :
        LET id == call[p].item_id
            succeeded == call[p].result.kind = "item"
        IN  /\ AllNamed => DefaultList.kind = "items" /\ ArchivedList.kind = "items"
            /\ (Done(p, "archive") /\ succeeded) =>
                    /\ DefaultList.kind = "items" => id \notin Ids(DefaultList.items)
                    /\ ArchivedList.kind = "items" => id \in Ids(ArchivedList.items)
            /\ (Done(p, "unarchive") /\ succeeded) =>
                    /\ DefaultList.kind = "items" => id \in Ids(DefaultList.items)
                    /\ ArchivedList.kind = "items" => id \notin Ids(ArchivedList.items)

\* C13 witness: unarchive has returned the record of a created item that an
\* earlier archive had moved to the archived list, and both lists answer.
C13_Witness ==
    \E p \in Procs :
        /\ Done(p, "unarchive")
        /\ call[p].result.kind = "item"
        /\ call[p].item_id \in created
        /\ call[p].before[call[p].item_id]["is_archived"] = TRUE
        /\ DefaultList.kind = "items"
        /\ ArchivedList.kind = "items"
        /\ call[p].item_id \in Ids(DefaultList.items)

\* the document without its is_archived field
Unflagged(d) == Restrict(d, (DOMAIN d) \ {"is_archived"})

\* C14: when archive or unarchive has ended, whatever it returned, the
\* collection holds the documents it held when the call began; each is
\* unchanged but for the addressed one, of which only is_archived may
\* differ, and then it is the flag the call sets.
C14_ArchiveFrame ==
    \A p \in Procs :
        (Done(p, "archive") \/ Done(p, "unarchive")) =>
            LET c == call[p]
            IN  /\ Len(store) = Len(c.before)
                /\ \A i \in 1..Len(store) :
                        IF i = c.item_id
                        THEN /\ Unflagged(store[i]) = Unflagged(c.before[i])
                             /\ store[i] # c.before[i] =>
                                    store[i]["is_archived"] = c.flag
                        ELSE store[i] = c.before[i]

\* C14 witness: archive has changed the addressed document, which has a
\* schedule, in a collection of two documents.
C14_Witness ==
    \E p \in Procs :
        /\ Done(p, "archive")
        /\ call[p].result.kind = "item"
        /\ Len(store) = 2
        /\ store # call[p].before
        /\ Has(store[call[p].item_id], "next_cleaning_date")


-----------------------------------------------------------------------------
\* C15: a GET request to /clothing-items/needing-cleaning is dispatched to
\* get_items_needing_cleaning and a GET request to
\* /clothing-items/recently-cleaned to get_recently_cleaned_items; neither
\* goes to get_clothing_item.
C15_ListingRoutesReached ==
    (routed # "none" /\ request.method = "GET") =>
        /\ request.path = <<"clothing-items", "needing-cleaning">> =>
                routed = "get_items_needing_cleaning"
        /\ request.path = <<"clothing-items", "recently-cleaned">> =>
                routed = "get_recently_cleaned_items"


-----------------------------------------------------------------------------
\* C16: every document stored through create and the interval updates has
\* cleaning_interval_seconds > 0, requests with an interval <= 0 being
\* refused before the repository is called.
C16_PositiveIntervals ==
    \A id \in created : store[id]["cleaning_interval_seconds"] > 0


-----------------------------------------------------------------------------
\* C17: when get-by-id has ended for an id whose document exists and has a
\* name, the store having answered, it has returned that document's record,
\* whether the document is archived or not: the record carries the id and
\* the stored is_archived (false when the field is absent), and for a
\* document inserted by create it is the stored document.
C17_GetIgnoresArchived ==
    \A p \in Procs :
        (/\ Done(p, "get")
         /\ call[p].existed
         /\ ~call[p].store_failed
         /\ Has(store[call[p].item_id], "name")) =>
            LET d == store[call[p].item_id]
                r == call[p].result
            IN  /\ r.kind = "item"
                /\ r.doc["_id"] = call[p].item_id
                /\ r.doc["is_archived"] = ~NotArchived(d)
                /\ call[p].item_id \in created => r.doc = d

\* C17 witness: get-by-id has returned the record of an archived item.
C17_Witness ==
    \E p \in Procs :
        /\ Done(p, "get")
        /\ call[p].item_id \in created
        /\ call[p].result.kind = "item"
        /\ call[p].result.doc["is_archived"] = TRUE


-----------------------------------------------------------------------------
\* the value under the first of the keys ks that doc has, else default
RECURSIVE FirstOf(_, _, _)
FirstOf(doc, ks, default) ==
    IF ks = <<>>
    THEN default
    ELSE IF Has(doc, Head(ks))
         THEN doc[Head(ks)]
         ELSE FirstOf(doc, Tail(ks), default)

\* d resolves every field of raw by first match, the clock reading t
FirstMatch(raw, d, t) ==
    /\ d["clothingItemType"] =
            FirstOf(raw, <<"clothingItemType", "clothing_item_type", "type">>, Unknown)
    /\ d["last_cleaned"] = FirstOf(raw, <<"last_cleaned", "lastCleaned">>, t)
    /\ d["cleaning_interval_seconds"] =
            FirstOf(raw, <<"cleaning_interval_seconds", "cleaningIntervalSeconds">>,
                    604800)
    /\ (Has(raw, "next_cleaning_date") \/ Has(raw, "nextCleaningDate")) =>
            d["next_cleaning_date"] =
                FirstOf(raw, <<"next_cleaning_date", "nextCleaningDate">>, 0)
    /\ d["image"] = FirstOf(raw, <<"image">>, "")
    /\ d["is_archived"] = FirstOf(raw, <<"is_archived">>, FALSE)
    /\ \A k \in DOMAIN raw : d[k] = raw[k]

\* C18: every step that normalizes the raw document and returns resolves
\* each field by first match: the canonical key if the document has it,
\* else the alternate keys in order (clothing_item_type, then type;
\* lastCleaned; cleaningIntervalSeconds; nextCleaningDate), else the default
\* ("unknown", the time of the call, 604800, "", false); every key the raw
\* document has keeps its value.
C18_FirstMatchWins ==
    [][(nstage = 0 /\ nstage' = 1 /\ nres1'.kind = "ok") =>
            FirstMatch(nraw, nres1'.doc, now)]_vars

\* C18 witness: a raw document with both alternate type keys and no
\* canonical one, both last_cleaned keys, and no interval key has been
\* normalized to the first alternate type, the canonical last_cleaned and
\* the default interval.
C18_Witness ==
    /\ nstage >= 1
    /\ nres1.kind = "ok"
    /\ ~Has(nraw, "clothingItemType")
    /\ Has(nraw, "clothing_item_type") /\ Has(nraw, "type")
    /\ Has(nraw, "last_cleaned") /\ Has(nraw, "lastCleaned")
    /\ ~Has(nraw, "cleaning_interval_seconds")
    /\ ~Has(nraw, "cleaningIntervalSeconds")
    /\ nres1.doc["clothingItemType"] = nraw["clothing_item_type"]
    /\ nres1.doc["last_cleaned"] = nraw["last_cleaned"]
    /\ nres1.doc["cleaning_interval_seconds"] = 604800


-----------------------------------------------------------------------------
\* the raw document has no next cleaning date under either key
NoNextDate(raw) ==
    ~Has(raw, "next_cleaning_date") /\ ~Has(raw, "nextCleaningDate")

\* the raw document has no interval under either key
NoInterval(raw) ==
    ~Has(raw, "cleaning_interval_seconds") /\ ~Has(raw, "cleaningIntervalSeconds")

\* C19: when the normalizer has returned for a raw document with no next
\* cleaning date under either key, the record's next_cleaning_date is its
\* last_cleaned plus its cleaning_interval_seconds, defaulted or not; if
\* the raw document has last_cleaned = T and no interval under either key
\* as well, the record has cleaning_interval_seconds = 604800 and
\* next_cleaning_date = T + 604800.
C19_MissingNextRecomputed ==
    (nstage >= 1 /\ nres1.kind = "ok" /\ NoNextDate(nraw)) =>
        LET d == nres1.doc
        IN  /\ d["next_cleaning_date"] =
                    d["last_cleaned"] + d["cleaning_interval_seconds"]
            /\ (Has(nraw, "last_cleaned") /\ NoInterval(nraw)) =>
                    /\ d["cleaning_interval_seconds"] = 604800
                    /\ d["next_cleaning_date"] = nraw["last_cleaned"] + 604800

\* C19 witness: a raw document with last_cleaned and neither interval nor
\* next cleaning date has been normalized to next_cleaning_date =
\* last_cleaned + 604800.
C19_Witness ==
    /\ nstage >= 1
    /\ nres1.kind = "ok"
    /\ Has(nraw, "last_cleaned")
    /\ NoInterval(nraw)
    /\ NoNextDate(nraw)
    /\ nres1.doc["next_cleaning_date"] = nraw["last_cleaned"] + 604800


-----------------------------------------------------------------------------
\* the operations that read
ReadOps ==
    {"get", "list", "by_name", "by_type", "needing_cleaning", "recently_cleaned",
     "archived"}

\* C20: every record a read operation has returned, alone or in a list,
\* has next_cleaning_date = last_cleaned + cleaning_interval_seconds,
\* records of legacy documents included.
C20_ReturnedRecordsConsistent ==
    \A p \in Procs :
        (pc[p] = "done" /\ call[p].op \in ReadOps) =>
            LET r == call[p].result
            IN  /\ r.kind = "item" => ScheduleHolds(r.doc)
                /\ r.kind = "items" =>
                        \A i \in 1..Len(r.items) : ScheduleHolds(r.items[i])


-----------------------------------------------------------------------------
\* the document at position i is not archived and the record a caller
\* would get of it at this time has next_cleaning_date <= now
DueAsReturned(i) ==
    LET r == NormalizedResponse(store[i], now)
    IN  /\ NotArchived(store[i])
        /\ r.kind = "ok"
        /\ r.doc["next_cleaning_date"] <= now

\* C21: when the default needing-cleaning listing answers, on a page that
\* covers the collection, every record it returns is not archived and has
\* next_cleaning_date <= now, and the records it returns are those of
\* exactly the non-archived documents whose record has next_cleaning_date
\* <= now, legacy documents whose date comes from an alternate key or from
\* normalization included.
C21_ExactlyTheDue ==
    LET r == get_items_needing_cleaning(store, now, 0, MaxItems, FALSE)
    IN  r.kind = "items" =>
            /\ \A i \in 1..Len(r.items) :
                    /\ r.items[i]["next_cleaning_date"] <= now
                    /\ r.items[i]["is_archived"] = FALSE
            /\ Ids(r.items) = {i \in 1..Len(store) : DueAsReturned(i)}

-----------------------------------------------------------------------------
\* the create and the two calls under study are the only calls made
OnlyTheTwo == calls = 3

\* callers p and q have both ended an update_item_cleaning_interval of the
\* same created item, which existed when each call began, no other call
\* but its create having run
BothUpdated(p, q) ==
    /\ p # q
    /\ OnlyTheTwo
    /\ Done(p, "update_item")
    /\ Done(q, "update_item")
    /\ call[p].item_id = call[q].item_id
    /\ call[p].item_id \in created
    /\ call[p].existed
    /\ call[q].existed

\* C22: when two overlapping single-item interval updates of the same item,
\* with intervals a and b, have both ended, whatever the order of their
\* reads and writes and no third call having written, the stored document
\* has cleaning_interval_seconds = a or = b, and next_cleaning_date =
\* last_cleaned + that interval.
C22_LastWriteWins ==
    \A p, q \in Procs :
        BothUpdated(p, q) =>
            LET d == store[call[p].item_id]
            IN  /\ d["cleaning_interval_seconds"] \in
                        {call[p].interval, call[q].interval}
                /\ d["next_cleaning_date"] =
                        d["last_cleaned"] + d["cleaning_interval_seconds"]

\* C22 witness: two updates of one item with different intervals have both
\* ended, and the record one of them read back after its own write already
\* carried the other's interval: their steps interleaved.
C22_Witness ==
    \E p, q \in Procs :
        /\ BothUpdated(p, q)
        /\ call[p].interval # call[q].interval
        /\ call[p].result.kind = "item"
        /\ call[p].result.doc["cleaning_interval_seconds"] = call[q].interval
        /\ store[call[p].item_id]["cleaning_interval_seconds"] = call[q].interval


-----------------------------------------------------------------------------
\* document b with the interval set to interval and the next cleaning date
\* recomputed from its last_cleaned
Rescheduled(b, interval) ==
    SetFields(b, [cleaning_interval_seconds |-> interval,
                  next_cleaning_date |-> b["last_cleaned"] + interval])

\* the records a read by type returns now, archived ones included
ReadByType(item_type) ==
    get_clothing_items_by_type(store, now, item_type, 0, MaxItems, TRUE)

\* C23: with no other writer, while the update by type is between two of
\* its store calls the documents it has written carry the new interval and
\* date and every other document is as it was when the call began; when it
\* has returned its count, every document whose clothingItemType contains
\* the text, whatever its case and archived or not, carries the new interval
\* and next_cleaning_date = last_cleaned + new interval with every other
\* field as before, and every other document is as it was.
C23_TypeUpdateByDocument ==
    \A p \in Procs :
        LET c == call[p]
        IN  /\ pc[p] = "update_type_loop" =>
                /\ Len(store) = Len(c.before)
                /\ \A i \in 1..Len(store) :
                        store[i] = IF i \in c.attempted
                                   THEN Rescheduled(c.before[i], c.interval)
                                   ELSE c.before[i]
            /\ (Done(p, "update_type") /\ c.result.kind = "count") =>
                /\ Len(store) = Len(c.before)
                /\ \A i \in 1..Len(store) :
                        store[i] = IF TypeMatches(c.before[i], c.pattern)
                                   THEN Rescheduled(c.before[i], c.interval)
                                   ELSE c.before[i]

\* C23 witness: the update by type stands between its two writes: a read
\* by type at this point returns one matching record with the new interval
\* and another with its old, different interval.
C23_Witness ==
    \E p \in Procs :
        /\ pc[p] = "update_type_loop"
        /\ call[p].attempted # {}
        /\ LET r == ReadByType(call[p].pattern)
           IN  /\ r.kind = "items"
               /\ Len(r.items) = 2
               /\ r.items[1]["cleaning_interval_seconds"] = call[p].interval
               /\ r.items[2]["cleaning_interval_seconds"] # call[p].interval


-----------------------------------------------------------------------------
\* the fields no operation writes after creation
CreationKeys == {"_id", "name", "clothingItemType", "image", "last_cleaned"}

\* what document d has of these fields
CreationPart(d) == Restrict(d, CreationKeys \cap DOMAIN d)

\* C24: no step of any operation removes a document or changes the _id,
\* name, clothingItemType, image or last_cleaned of a stored document: after
\* every step the collection holds every document it held, at the same
\* place and under the same id, with these fields as they were.
C24_RecordsKeepIdentity ==
    [][/\ Len(store') >= Len(store)
       /\ \A i \in 1..Len(store) :
            /\ store'[i]["_id"] = i
            /\ CreationPart(store'[i]) = CreationPart(store[i])]_vars

\* C24 witness: an update by type has rewritten the schedule of a created
\* item that is archived, at a time after the item's last_cleaned.
C24_Witness ==
    \E p \in Procs : \E id \in created :
        /\ Done(p, "update_type")
        /\ call[p].result.kind = "count"
        /\ id \in call[p].attempted
        /\ store[id] # call[p].before[id]
        /\ store[id]["is_archived"] = TRUE
        /\ store[id]["last_cleaned"] < now


-----------------------------------------------------------------------------
\* caller p has ended an archive or unarchive of item id, which existed
\* when the call began
ArchivedBy(p, id) ==
    /\ Done(p, "archive") \/ Done(p, "unarchive")
    /\ call[p].item_id = id
    /\ call[p].existed

\* caller q has ended an interval update that addressed item id: a single
\* update of id, which existed when the call began, or an update by type
\* whose find matched id and which returned its count
UpdatedBy(q, id) ==
    \/ Done(q, "update_item") /\ call[q].item_id = id /\ call[q].existed
    \/ /\ Done(q, "update_type")
       /\ call[q].result.kind = "count"
       /\ id \in call[q].matched

\* C25: when an archive or unarchive and an interval update, single or by
\* type, of the same created item have both ended, having overlapped in
\* any order of their store calls and no other call having run, the
\* stored document has is_archived as the archive call set it and the
\* interval of the update with next_cleaning_date = last_cleaned + interval.
C25_BothEffectsKept ==
    \A p, q \in Procs : \A id \in created :
        (p # q /\ OnlyTheTwo /\ ArchivedBy(p, id) /\ UpdatedBy(q, id)) =>
            LET d == store[id]
            IN  /\ d["is_archived"] = call[p].flag
                /\ d["cleaning_interval_seconds"] = call[q].interval
                /\ d["next_cleaning_date"] = d["last_cleaned"] + call[q].interval

\* C25 witness: an archive and a single update of one item have both
\* ended with their steps interleaved: each began before the other's
\* write and read the record back after it.
C25_Witness ==
    \E p, q \in Procs : \E id \in created :
        /\ p # q
        /\ OnlyTheTwo
        /\ Done(p, "archive")
        /\ call[p].item_id = id
        /\ Done(q, "update_item")
        /\ call[q].item_id = id
        /\ call[p].existed
        /\ call[q].existed
        /\ call[p].before[id]["cleaning_interval_seconds"] # call[q].interval
        /\ call[p].result.kind = "item"
        /\ call[p].result.doc["cleaning_interval_seconds"] = call[q].interval
        /\ call[q].before[id]["is_archived"] = FALSE
        /\ call[q].result.kind = "item"
        /\ call[q].result.doc["is_archived"] = TRUE

=============================================================================
